---- MODULE Spec2Model ----
\* Model of the store-locator backend (src/main.go): process startup (main,
\* initDB), the /api/search handler (apiSearchHandler) and the PostGIS query
\* it runs (getGeoJSONFromDatabase).
\*
\* Text (query parameters, error messages, response bodies) is a sequence of
\* fragments; every character the program inspects (digits, signs, '.', '%',
\* the closing quote of a JSON string) is a fragment of its own.
\* Coordinates are held in tenths of a degree, distances in meters.
EXTENDS Integers, Sequences, FiniteSets, TLC

\* ---------------------------------------------------------------- bounds
NumReqs == 2          \* requests the server receives in one run
MaxRows == 27         \* rows of the largest table considered
MaxScanOffset == 1    \* start offsets of the table scan (tie order of ORDER BY)

\* ------------------------------------------------------ program constants
Limit == 25           \* LIMIT 25 of the inner SELECT

Reqs == 1..NumReqs

\* The default written in kilometers instead of meters.
DefaultRadiusKm == <<"1", "0">>

\* radiusMetersStr = "10000" when the radius parameter is empty
DefaultRadius == <<"1", "0", "0", "0", "0">>

StatusOK == 200
StatusBadRequest == 400
StatusInternalServerError == 500

\* ------------------------------------------------------------ text helpers
Min(a, b) == IF a < b THEN a ELSE b
Abs(a) == IF a < 0 THEN -a ELSE a

DigitChars == <<"0", "1", "2", "3", "4", "5", "6", "7", "8", "9">>
IsDigit(c) == \E i \in 1..10 : DigitChars[i] = c
DigitVal(c) == (CHOOSE i \in 1..10 : DigitChars[i] = c) - 1
AllDigits(s) == \A i \in 1..Len(s) : IsDigit(s[i])

RECURSIVE DecVal(_)
DecVal(s) == IF s = <<>> THEN 0
             ELSE 10 * DecVal(SubSeq(s, 1, Len(s) - 1)) + DigitVal(s[Len(s)])

HasSign(s) == s # <<>> /\ s[1] \in {"+", "-"}
Unsigned(s) == IF HasSign(s) THEN Tail(s) ELSE s
SignOf(s) == IF s # <<>> /\ s[1] = "-" THEN -1 ELSE 1

\* strconv's syntax error for input s
SyntaxError(fn, s) == <<fn, ": parsing \"">> \o s \o <<"\": invalid syntax">>

\* strconv.Atoi: an optional sign followed by one or more decimal digits.
Atoi(s) ==
    LET u == Unsigned(s)
        ok == u # <<>> /\ AllDigits(u)
    IN  [ok |-> ok,
         val |-> IF ok THEN SignOf(s) * DecVal(u) ELSE 0,
         err |-> IF ok THEN <<>> ELSE SyntaxError("strconv.Atoi", s)]

\* strconv.ParseFloat on decimal text: an optional sign, digits with at most
\* one '.', at least one digit. The value is kept in tenths (one fractional
\* digit, the resolution of the coordinates of this model).
ParseFloat(s) ==
    LET u == Unsigned(s)
        dots == {i \in 1..Len(u) : u[i] = "."}
        dot == IF dots = {} THEN Len(u) + 1 ELSE CHOOSE i \in dots : TRUE
        ip == SubSeq(u, 1, dot - 1)
        fp == SubSeq(u, dot + 1, Len(u))
        ok == /\ Cardinality(dots) <= 1
              /\ AllDigits(ip) /\ AllDigits(fp)
              /\ Len(ip) + Len(fp) >= 1
    IN  [ok |-> ok,
         val |-> IF ok
                 THEN SignOf(s) * (10 * DecVal(ip)
                                   + (IF fp = <<>> THEN 0 ELSE DigitVal(fp[1])))
                 ELSE 0,
         err |-> IF ok THEN <<>> ELSE SyntaxError("strconv.ParseFloat", s)]

\* fmt.Errorf("<prefix>: %w", err)
Errorf(prefix, err) == <<prefix>> \o err

\* Concatenation of the texts pieces[lo], ..., pieces[hi].
RECURSIVE Concat(_, _, _)
Concat(pieces, lo, hi) ==
    IF lo > hi THEN <<>>
    ELSE IF lo = hi THEN pieces[lo]
    ELSE LET mid == (lo + hi) \div 2
         IN  Concat(pieces, lo, mid) \o Concat(pieces, mid + 1, hi)

\* Character i of a format is a verb when it follows a '%' that is not itself
\* the verb of the '%' before it.
RECURSIVE IsVerb(_, _)
IsVerb(format, i) == i > 1 /\ format[i - 1] = "%" /\ ~IsVerb(format, i - 1)

\* fmt.Fprintf(w, format) with no operands: "%%" writes "%", "%" followed by
\* any other character c writes "%!c(MISSING)", a trailing "%" writes
\* "%!(NOVERB)"; everything else is copied. (No flag, width or precision
\* character follows a '%' in the texts of this model.)
Fprintf(format) ==
    LET n == Len(format)
        written(i) ==
            IF IsVerb(format, i) THEN <<>>
            ELSE IF format[i] # "%" THEN <<format[i]>>
            ELSE IF i = n THEN <<"%!(NOVERB)">>
            ELSE IF format[i + 1] = "%" THEN <<"%">>
            ELSE <<"%!", format[i + 1], "(MISSING)">>
    IN  Concat([i \in 1..n |-> written(i)], 1, n)

\* fmt.Sprintf(`{"status": "ok", "features": %s}`, geoJSON)
OkEnvelope(geoJSON) == <<"{\"status\": \"ok\", \"features\": ">> \o geoJSON \o <<"}">>

\* fmt.Sprintf(`{"status": "error", "error": "Internal server error during query: %s"}`, err)
ErrorEnvelope(err) ==
    <<"{\"status\": \"error\", \"error\": \"Internal server error during query: ">>
    \o err \o <<"\"}">>

MissingMessage == <<"{\"error\": \"Missing latitude or longitude parameter\"}">>

\* ------------------------------------------------------------- the table
\* Rows of austinrecycling: ogc_fid is the index, wkb_geometry a point
\* <<lng, lat>>, name the one descriptive column.
NearSites == << <<-977, 303>>, <<-976, 303>>, <<-978, 303>> >>
FarSite == <<-970, 310>>
Names == << <<"a">>, <<"a", "%", "a">>, <<"b", "%">> , <<"%", "%">> >>

\* A table of n rows: the last row lies far away, the others cycle through
\* the near sites; names cycle independently of the sites.
TableOf(n) ==
    [f \in 1..n |-> [wkb_geometry |-> IF f = n THEN FarSite
                                      ELSE NearSites[((f - 1) % Len(NearSites)) + 1],
                     name |-> Names[((f - 1) % Len(Names)) + 1]]]

\* A table with two differently named rows at the query point of the sample
\* requests (within every radius, the default included) and one far away.
HomeSite == <<-977, 302>>
HomeTable ==
    [f \in 1..3 |-> [wkb_geometry |-> IF f = 3 THEN FarSite ELSE HomeSite,
                     name |-> Names[f]]]

Tables == {TableOf(n) : n \in {0, 3, MaxRows}} \cup {HomeTable}

\* ST_Distance / ST_DWithin on geography: meters between two points.
Distance(p, q) == 11000 * (Abs(p[1] - q[1]) + Abs(p[2] - q[2]))

\* --------------------------------------------------------------- the query
\* WHERE ST_DWithin(geog, point, $3): the rows within radius meters of q.
Matching(tbl, q, radius) ==
    {f \in DOMAIN tbl : Distance(tbl[f].wkb_geometry, q) <= radius}

\* Position of row f in a scan of n rows that starts off rows into the heap.
ScanPos(f, n, off) == (f - 1 + n - (off % n)) % n

\* ORDER BY distance_km: ascending distance. The query names no second sort
\* key, so rows at equal distance come out in the order the scan met them.
OrderBy(tbl, q, S, off) ==
    LET n == Len(tbl)
        \* sort key of every row: distance first, scan position second
        key == [f \in 1..n |-> Distance(tbl[f].wkb_geometry, q) * n
                               + ScanPos(f, n, off)] \o <<>>
        rank == [f \in 1..n |-> Cardinality({g \in S : key[g] < key[f]})] \o <<>>
    IN  [i \in 1..Cardinality(S) |-> CHOOSE f \in S : rank[f] = i - 1]

\* InnerSelect without its ORDER BY: the first 25 matching rows as scanned.
InnerSelectScanOrder(tbl, q, radius, off) ==
    LET n == Len(tbl)
        S == Matching(tbl, q, radius)
        pos == [f \in 1..n |-> Cardinality({g \in S : ScanPos(g, n, off) < ScanPos(f, n, off)})] \o <<>>
        scanned == [i \in 1..Cardinality(S) |-> CHOOSE f \in S : pos[f] = i - 1]
    IN  SubSeq(scanned, 1, Min(Limit, Len(scanned)))

\* The inner SELECT ... WHERE ST_DWithin ... ORDER BY distance_km LIMIT 25:
\* the ogc_fid of the selected rows, in output order.
InnerSelect(tbl, q, radius, off) ==
    LET sorted == OrderBy(tbl, q, Matching(tbl, q, radius), off)
    IN  SubSeq(sorted, 1, Min(Limit, Len(sorted)))

\* jsonb_build_object('type', 'Feature', 'geometry', ..., 'properties',
\* to_jsonb(row) - 'ogc_fid' - 'wkb_geometry') printed as jsonb text.
FeatureText(tbl, q, f) ==
    <<"{\"type\": \"Feature\", \"geometry\": {\"type\": \"Point\", \"coordinates\": [",
      ToString(tbl[f].wkb_geometry[1]), ", ", ToString(tbl[f].wkb_geometry[2]),
      "]}, \"properties\": {\"name\": \"">>
    \o tbl[f].name
    \o <<"\"", ", \"distance_km\": ",
         ToString(Distance(tbl[f].wkb_geometry, q) \div 1000), "}}">>

\* The array elements of jsonb_agg, separated by ", ".
JoinFeatures(tbl, q, rows) ==
    Concat([i \in 1..Len(rows) |->
               FeatureText(tbl, q, rows[i])
               \o (IF i = Len(rows) THEN <<>> ELSE <<", ">>)],
           1, Len(rows))

\* JsonbAgg without the COALESCE: the aggregate of no rows is null.
JsonbAggNoCoalesce(tbl, q, rows) ==
    IF rows = <<>> THEN <<"null">>
    ELSE <<"[">> \o JoinFeatures(tbl, q, rows) \o <<"]">>

\* COALESCE(jsonb_agg(t.feature), '[]'::jsonb)
JsonbAgg(tbl, q, rows) ==
    IF rows = <<>> THEN <<"[]">>
    ELSE <<"[">> \o JoinFeatures(tbl, q, rows) \o <<"]">>

\* ------------------------------------------------------------------ state
VARIABLES
    mainPc,     \* position of main: "start", "initialized", "serving", "exited"
    db,         \* the global pool handle: "nil" or "pool"
    pinged,     \* outcome of db.Ping in initDB: "no", "ok", "failed"
    handlers,   \* TRUE once main has registered the HTTP handlers
    logs,       \* lines written with the log package
    table,      \* content of table austinrecycling
    req         \* per request: parameters, position, query and response

vars == <<mainPc, db, pinged, handlers, logs, table, req>>

\* Raw query parameters; <<>> is an absent or empty parameter.
LatStrs == {<<>>, <<"a", "b", "c">>, <<"3", "0", ".", "2">>}
LngStrs == {<<>>, <<"x">>, <<"-", "9", "7", ".", "7">>}
RadiusStrs == {<<>>, <<"a", "b", "c">>, <<"1", "0", "0", "0", "0">>,
               <<"2", "5", "0", "0", "0">>}

\* Errors of the driver other than sql.ErrNoRows.
DbErrors == {<<"dial tcp 127.0.0.1:5432: connect: connection refused">>}
ErrNoRows == <<"sql: no rows in result set">>

NoHeaders == [acao |-> "", ctype |-> "", nosniff |-> ""]

IdleReq ==
    [pc |-> "idle", lat |-> <<>>, lng |-> <<>>, radius |-> <<>>,
     queries |-> 0, args |-> <<>>, scanErr |-> <<>>, rows |-> <<>>,
     geoJSON |-> <<>>, code |-> 0, headers |-> NoHeaders, body |-> <<>>]

Init ==
    /\ mainPc = "start"
    /\ db = "nil"
    /\ pinged = "no"
    /\ handlers = FALSE
    /\ logs = <<>>
    /\ table \in Tables
    /\ req = [r \in Reqs |-> IdleReq]

\* ---------------------------------------------------------------- startup
\* InitDB with the result of db.Ping ignored.
InitDBIgnorePing(outcome) ==
    /\ mainPc = "start"
    /\ db' = IF outcome = "open_failed" THEN "nil" ELSE "pool"
    /\ pinged' = CASE outcome = "ok" -> "ok"
                   [] outcome = "ping_failed" -> "failed"
                   [] OTHER -> "no"
    /\ IF outcome # "open_failed"
       THEN /\ logs' = logs \o <<"Successfully connected to database">>
            /\ mainPc' = "initialized"
       ELSE /\ logs' = logs \o <<"Failed to initialize database: sql.Open failed">>
            /\ mainPc' = "exited"
    /\ UNCHANGED <<handlers, table, req>>

\* initDB and main's reaction to its result. outcome: what sql.Open and
\* db.Ping report.
InitDB(outcome) ==
    /\ mainPc = "start"
    /\ db' = IF outcome = "open_failed" THEN "nil" ELSE "pool"
    /\ pinged' = CASE outcome = "ok" -> "ok"
                   [] outcome = "ping_failed" -> "failed"
                   [] OTHER -> "no"
    /\ IF outcome = "ok"
       THEN /\ logs' = logs \o <<"Successfully connected to database">>
            /\ mainPc' = "initialized"
       ELSE /\ logs' = logs \o << IF outcome = "open_failed"
                                  THEN "Failed to initialize database: sql.Open failed"
                                  ELSE "Failed to initialize database: db.Ping failed" >>
            /\ mainPc' = "exited"
    /\ UNCHANGED <<handlers, table, req>>

\* main after initDB: registers the handlers, logs and calls ListenAndServe.
Serve(listenOk) ==
    /\ mainPc = "initialized"
    /\ handlers' = TRUE
    /\ IF listenOk
       THEN /\ mainPc' = "serving"
            /\ logs' = logs \o <<"Store Locator Backend (Go) listening on port">>
       ELSE /\ mainPc' = "exited"
            /\ logs' = logs \o <<"Store Locator Backend (Go) listening on port",
                                 "listen: address already in use">>
    /\ UNCHANGED <<db, pinged, table, req>>

\* ---------------------------------------------------------------- handler
\* The two headers apiSearchHandler sets first.
HandlerHeaders == [NoHeaders EXCEPT !.acao = "*", !.ctype = "application/json"]

\* net/http.Error(w, msg, code): replaces Content-Type by text/plain, adds
\* X-Content-Type-Options, writes the status line and msg followed by "\n".
HttpError(headers, msg, code) ==
    [headers |-> [headers EXCEPT !.ctype = "text/plain; charset=utf-8",
                                 !.nosniff = "nosniff"],
     code |-> code,
     body |-> msg \o <<"\n">>]

\* MissingParam checking the latitude only.
MissingParamLatOnly(centerLatStr, centerLngStr) == centerLatStr = <<>>

\* The "Basic validation for search coordinates" of apiSearchHandler.
MissingParam(centerLatStr, centerLngStr) ==
    centerLatStr = <<>> \/ centerLngStr = <<>>

\* The conversions at the head of getGeoJSONFromDatabase: the first failure is
\* returned; otherwise the bind values in the order db.QueryRow receives them.
ParseArgs(centerLatStr, centerLngStr, radiusMetersStr) ==
    LET centerLat == ParseFloat(centerLatStr)
        centerLng == ParseFloat(centerLngStr)
        radiusMeters == Atoi(radiusMetersStr)
    IN  IF ~centerLat.ok
        THEN [err |-> Errorf("invalid latitude: ", centerLat.err), args |-> <<>>]
        ELSE IF ~centerLng.ok
        THEN [err |-> Errorf("invalid longitude: ", centerLng.err), args |-> <<>>]
        ELSE IF ~radiusMeters.ok
        THEN [err |-> Errorf("invalid radius: ", radiusMeters.err), args |-> <<>>]
        ELSE [err |-> <<>>,
              args |-> <<centerLng.val, centerLat.val, radiusMeters.val>>]

\* apiSearchHandler up to the call of db.QueryRow: headers, the radius default,
\* the missing-parameter check, the conversions. It either answers at once or
\* sends the query and waits for the database.
ApiSearchHandler(r, lat, lng, radius) ==
    /\ mainPc = "serving"
    /\ handlers
    /\ req[r].pc = "idle"
    /\ LET radiusMetersStr == IF radius = <<>> THEN DefaultRadius ELSE radius
           rq == [req[r] EXCEPT !.lat = lat, !.lng = lng, !.radius = radius,
                                !.headers = HandlerHeaders]
       IN  IF MissingParam(lat, lng)
           THEN LET resp == HttpError(rq.headers, MissingMessage, StatusBadRequest)
                IN  req' = [req EXCEPT ![r] =
                               [rq EXCEPT !.pc = "done", !.code = resp.code,
                                          !.headers = resp.headers,
                                          !.body = resp.body]]
           ELSE LET p == ParseArgs(lat, lng, radiusMetersStr)
                IN  IF p.err # <<>>
                    THEN LET resp == HttpError(rq.headers, ErrorEnvelope(p.err),
                                               StatusInternalServerError)
                         IN  req' = [req EXCEPT ![r] =
                                        [rq EXCEPT !.pc = "done", !.code = resp.code,
                                                   !.headers = resp.headers,
                                                   !.body = resp.body]]
                    ELSE req' = [req EXCEPT ![r] =
                                    [rq EXCEPT !.pc = "querying", !.args = p.args,
                                               !.queries = @ + 1]]
    /\ UNCHANGED <<mainPc, db, pinged, handlers, logs, table>>

\* What row.Scan can report for the bind values args: the one aggregated row
\* (for each order in which the scan may meet rows at equal distance), an
\* error of the driver, or - only conceivable when nothing matches - no row.
ScanResults(tbl, args) ==
    LET q == <<args[1], args[2]>>
    IN  {[err |-> <<>>, rows |-> InnerSelect(tbl, q, args[3], off)] :
            off \in 0..MaxScanOffset}
        \cup {[err |-> e, rows |-> <<>>] : e \in DbErrors}
        \cup (IF Matching(tbl, q, args[3]) = {}
              THEN {[err |-> ErrNoRows, rows |-> <<>>]} ELSE {})

\* GetGeoJSONResult treating every error of row.Scan as "no rows".
GetGeoJSONResultSwallow(tbl, args, res) ==
    IF res.err # <<>>
    THEN [geoJSON |-> <<"[]">>, err |-> <<>>]
    ELSE [geoJSON |-> JsonbAgg(tbl, <<args[1], args[2]>>, res.rows), err |-> <<>>]

\* The tail of getGeoJSONFromDatabase: sql.ErrNoRows becomes "[]", any other
\* error is wrapped, otherwise the scanned column is returned.
GetGeoJSONResult(tbl, args, res) ==
    IF res.err = ErrNoRows
    THEN [geoJSON |-> <<"[]">>, err |-> <<>>]
    ELSE IF res.err # <<>>
    THEN [geoJSON |-> <<>>, err |-> Errorf("error scanning row: ", res.err)]
    ELSE [geoJSON |-> JsonbAgg(tbl, <<args[1], args[2]>>, res.rows), err |-> <<>>]

\* AfterScan running the query once more when it has failed.
AfterScanRetry(rq, res) ==
    LET out == GetGeoJSONResult(table, rq.args, res)
    IN  IF out.err # <<>> /\ rq.queries < 2
        THEN [rq EXCEPT !.queries = @ + 1]
        ELSE IF out.err # <<>>
        THEN LET resp == HttpError(rq.headers, ErrorEnvelope(out.err),
                                   StatusInternalServerError)
             IN  [rq EXCEPT !.pc = "done", !.scanErr = res.err, !.code = resp.code,
                            !.headers = resp.headers, !.body = resp.body]
        ELSE [rq EXCEPT !.pc = "done", !.scanErr = res.err, !.rows = res.rows,
                        !.geoJSON = out.geoJSON, !.code = StatusOK,
                        !.body = Fprintf(OkEnvelope(out.geoJSON))]

\* apiSearchHandler after getGeoJSONFromDatabase returned: the 500 answer on
\* an error, otherwise the envelope written with fmt.Fprintf.
AfterScan(rq, res) ==
    LET out == GetGeoJSONResult(table, rq.args, res)
    IN  IF out.err # <<>>
        THEN LET resp == HttpError(rq.headers, ErrorEnvelope(out.err),
                                   StatusInternalServerError)
             IN  [rq EXCEPT !.pc = "done", !.scanErr = res.err, !.code = resp.code,
                            !.headers = resp.headers, !.body = resp.body]
        ELSE [rq EXCEPT !.pc = "done", !.scanErr = res.err, !.rows = res.rows,
                        !.geoJSON = out.geoJSON, !.code = StatusOK,
                        !.body = Fprintf(OkEnvelope(out.geoJSON))]

\* row.Scan returns for request r and the handler writes its answer.
QueryRowScan(r) ==
    /\ req[r].pc = "querying"
    /\ db = "pool"
    /\ \E res \in ScanResults(table, req[r].args) :
          req' = [req EXCEPT ![r] = AfterScan(req[r], res)]
    /\ UNCHANGED <<mainPc, db, pinged, handlers, logs, table>>

Next ==
    \/ \E outcome \in {"ok", "ping_failed", "open_failed"} : InitDB(outcome)
    \/ \E listenOk \in BOOLEAN : Serve(listenOk)
    \/ \E r \in Reqs, lat \in LatStrs, lng \in LngStrs, radius \in RadiusStrs :
          ApiSearchHandler(r, lat, lng, radius)
    \/ \E r \in Reqs : QueryRowScan(r)

Spec == Init /\ [][Next]_vars

TypeOK ==
    /\ mainPc \in {"start", "initialized", "serving", "exited"}
    /\ db \in {"nil", "pool"}
    /\ \A r \in Reqs : req[r].pc \in {"idle", "querying", "done"}

\* ----------------------------------------------------- request predicates
Done(r) == req[r].pc = "done"
LatLngPresent(r) == req[r].lat # <<>> /\ req[r].lng # <<>>
EffectiveRadius(r) == IF req[r].radius = <<>> THEN DefaultRadius ELSE req[r].radius
ParseFails(r) ==
    \/ ~ParseFloat(req[r].lat).ok
    \/ ~ParseFloat(req[r].lng).ok
    \/ ~Atoi(EffectiveRadius(r)).ok
Valid(r) == LatLngPresent(r) /\ ~ParseFails(r)

RangeOf(seq) == {seq[i] : i \in 1..Len(seq)}
Embeds(text, part) ==
    \E i \in 1..(Len(text) - Len(part) + 1) : SubSeq(text, i, i + Len(part) - 1) = part

\* Distance in meters of stored row f from the query point of request r.
DistOf(r, f) == Distance(table[f].wkb_geometry, <<req[r].args[1], req[r].args[2]>>)
\* The stored rows within the radius of request r.
Within(r) == {f \in DOMAIN table : DistOf(r, f) <= req[r].args[3]}

\* ------------------------------------------------------------------ claims

\* C1: a request with lat and lng present in which lat, lng or radius fails to
\* parse is answered with HTTP 400.
C1_ParseFailureIs400 ==
    \A r \in Reqs :
        (Done(r) /\ LatLngPresent(r) /\ ParseFails(r))
            => req[r].code = StatusBadRequest

\* C2: a request in which lat or lng is absent or empty is answered with HTTP
\* 400 and a non-empty error message, whatever the other parameters are, and
\* sends no query to the database.
C2_MissingIs400NoQuery ==
    \A r \in Reqs :
        (req[r].pc # "idle" /\ ~LatLngPresent(r)) =>
            /\ Done(r)
            /\ req[r].code = StatusBadRequest
            /\ Len(req[r].body) > 0
            /\ req[r].body[1] = "{\"error\": \"Missing latitude or longitude parameter\"}"
            /\ req[r].queries = 0
            /\ req[r].args = <<>>

C2_Witness ==
    \E r \in Reqs :
        /\ Done(r)
        /\ req[r].lat = <<>>
        /\ req[r].lng = <<"x">>
        /\ req[r].radius = <<"a", "b", "c">>
        /\ req[r].code = StatusBadRequest

\* C3: every response of the handler carries Access-Control-Allow-Origin: *
\* and a JSON content type when it is sent.
C3_HeadersOnEveryResponse ==
    \A r \in Reqs :
        req[r].code # 0 =>
            /\ req[r].headers.acao = "*"
            /\ req[r].headers.ctype = "application/json"

\* C4: the features of a successful response are the min(25, k) nearest of
\* the k stored rows within the radius, in non-decreasing order of distance:
\* at most 25, none beyond the radius, none repeated, and no omitted row is
\* strictly closer than an included one.
C4_NearestWithinRadius ==
    \A r \in Reqs :
        req[r].code = StatusOK =>
            LET rows == req[r].rows
            IN  /\ Len(rows) = Min(25, Cardinality(Within(r)))
                /\ Len(rows) <= 25
                /\ RangeOf(rows) \subseteq Within(r)
                /\ Cardinality(RangeOf(rows)) = Len(rows)
                /\ \A i \in 1..(Len(rows) - 1) :
                      DistOf(r, rows[i]) <= DistOf(r, rows[i + 1])
                /\ \A f \in Within(r) \ RangeOf(rows) :
                      \A i \in 1..Len(rows) : DistOf(r, f) >= DistOf(r, rows[i])
                /\ req[r].geoJSON =
                      JsonbAgg(table, <<req[r].args[1], req[r].args[2]>>, rows)

\* More than 25 rows lie within the radius, a row beyond the radius exists, and
\* a row left out is as far away as the last one included.
C4_Witness ==
    \E r \in Reqs :
        /\ req[r].code = StatusOK
        /\ Cardinality(Within(r)) > 25
        /\ Len(req[r].rows) = 25
        /\ Within(r) # DOMAIN table
        /\ \E f \in Within(r) \ RangeOf(req[r].rows) :
              DistOf(r, f) = DistOf(r, req[r].rows[25])

\* C5: when the query of a request with valid parameters comes back with no
\* stored row within the radius (an empty aggregate, or the driver reporting
\* no rows), the answer is HTTP 200 with status "ok" and the empty array.
C5_EmptyResultIsOk ==
    \A r \in Reqs :
        (Done(r) /\ Valid(r) /\ Within(r) = {}
                 /\ req[r].scanErr \in {<<>>, ErrNoRows}) =>
            /\ req[r].code = StatusOK
            /\ req[r].body = <<"{\"status\": \"ok\", \"features\": ", "[]", "}">>

\* Both ways of finding nothing, against a table that has rows.
C5_Witness ==
    /\ Len(table) > 0
    /\ \E r \in Reqs :
          Done(r) /\ Valid(r) /\ req[r].scanErr = <<>> /\ Within(r) = {}
    /\ \E r \in Reqs :
          Done(r) /\ Valid(r) /\ req[r].scanErr = ErrNoRows

\* C6: the body of a successful response is the envelope around the payload
\* the database returned, the payload unmodified.
C6_PayloadUnmodified ==
    \A r \in Reqs :
        req[r].code = StatusOK =>
            req[r].body =
                <<"{\"status\": \"ok\", \"features\": ">> \o req[r].geoJSON \o <<"}">>

\* C7: when the query fails for a reason other than "no rows", the answer is
\* HTTP 500 with status "error" and a message that embeds the error text;
\* never status "ok", never a features array.
C7_QueryFailureIs500 ==
    \A r \in Reqs :
        (Done(r) /\ req[r].scanErr \notin {<<>>, ErrNoRows}) =>
            /\ req[r].code = StatusInternalServerError
            /\ req[r].body[1] =
                  "{\"status\": \"error\", \"error\": \"Internal server error during query: "
            /\ Embeds(req[r].body, req[r].scanErr)
            /\ ~Embeds(req[r].body, <<"[]">>)
            /\ req[r].geoJSON = <<>>

C7_Witness ==
    \E r \in Reqs :
        /\ Done(r)
        /\ req[r].scanErr \in DbErrors
        /\ req[r].code = StatusInternalServerError

\* C8: a request that passes validation runs exactly one query, no request
\* runs more than one, a failed query is not retried, and the response is
\* written only after the query has returned.
C8_ExactlyOneQuery ==
    \A r \in Reqs :
        /\ req[r].queries <= 1
        /\ (req[r].pc # "idle" /\ Valid(r)) => req[r].queries = 1
        /\ (req[r].pc # "idle" /\ ~Valid(r)) => req[r].queries = 0
        /\ req[r].pc = "querying" => (req[r].code = 0 /\ req[r].body = <<>>)
        /\ req[r].code # 0 => Done(r)

\* A query has failed and its request is finished with one query run.
C8_Witness ==
    \E r \in Reqs :
        /\ Done(r)
        /\ Valid(r)
        /\ req[r].scanErr \in DbErrors
        /\ req[r].queries = 1

\* C9: requests are handled only after open + ping succeeded; when the
\* database is unreachable at startup the process exits with a logged cause
\* without registering handlers or serving; while a request is handled the
\* pool is initialized.
C9_ServeOnlyAfterPing ==
    /\ \A r \in Reqs :
          req[r].pc # "idle" =>
              (mainPc = "serving" /\ db = "pool" /\ pinged = "ok" /\ handlers)
    /\ (mainPc \in {"initialized", "serving"} \/ handlers) => pinged = "ok"
    /\ pinged = "failed" =>
          /\ mainPc = "exited"
          /\ ~handlers
          /\ logs # <<>>
          /\ \A r \in Reqs : req[r].pc = "idle"

C9_Witness ==
    /\ pinged = "ok"
    /\ db = "pool"
    /\ \E r \in Reqs : req[r].pc = "querying"

\* C10: the same request issued twice against an unchanged table yields the
\* same features both times, rows at equal distance included.
C10_SameRequestSameFeatures ==
    \A r1, r2 \in Reqs :
        (/\ req[r1].code = StatusOK /\ req[r2].code = StatusOK
         /\ req[r1].lat = req[r2].lat
         /\ req[r1].lng = req[r2].lng
         /\ req[r1].radius = req[r2].radius)
            => req[r1].geoJSON = req[r2].geoJSON

\* C11: a request whose radius is absent or empty is processed as the same
\* request with radius=10000: its query runs with the bind values (longitude,
\* latitude, 10000) in that order, and whatever the database returns for
\* them, the response is the one the explicit radius=10000 gets.
C11_DefaultRadiusIs10000 ==
    \A r1 \in Reqs :
        (req[r1].pc # "idle" /\ req[r1].radius = <<>>) =>
            /\ req[r1].queries = 1 =>
                  (/\ req[r1].lat = <<"3", "0", ".", "2">>
                   /\ req[r1].lng = <<"-", "9", "7", ".", "7">>
                   /\ req[r1].args = <<-977, 302, 10000>>)
            /\ \A r2 \in Reqs :
                  (/\ req[r2].pc # "idle"
                   /\ req[r2].radius = <<"1", "0", "0", "0", "0">>
                   /\ req[r2].lat = req[r1].lat
                   /\ req[r2].lng = req[r1].lng) =>
                      /\ req[r2].args = req[r1].args
                      /\ req[r2].queries = req[r1].queries
                      /\ (/\ Done(r1) /\ Done(r2)
                          /\ req[r1].scanErr = req[r2].scanErr
                          /\ req[r1].rows = req[r2].rows) =>
                             /\ req[r1].code = req[r2].code
                             /\ req[r1].headers = req[r2].headers
                             /\ req[r1].body = req[r2].body

\* The default and the explicit 10000 have both found rows and answered alike.
C11_Witness ==
    \E r1, r2 \in Reqs :
        /\ req[r1].radius = <<>>
        /\ req[r2].radius = <<"1", "0", "0", "0", "0">>
        /\ req[r1].code = StatusOK /\ req[r2].code = StatusOK
        /\ req[r1].args = <<-977, 302, 10000>>
        /\ Len(req[r1].rows) = 2
        /\ req[r1].body = req[r2].body

====
